---- MODULE Spec2Model ----
(***************************************************************************)
(* A model of the CHIP-8 interpreter of src/src/main.rs: the processor     *)
(* (struct Cpu), the memory, display and keyboard surface (struct IO) and  *)
(* the run loop of main, which polls the window and then steps the         *)
(* processor once.                                                         *)
(***************************************************************************)
EXTENDS Integers, Sequences, FiniteSets, TLC

VARIABLES
    cpu,              \* struct Cpu: v, idx, sp, pc, delay, sound, cycle
    io,               \* struct IO: frame_buffer, did_draw, mem, key
    status,           \* "running", or the panic that ended the process
    phase,            \* position in main's loop body: "poll" or "step"
    i,                \* main's count of completed loop iterations
    op,               \* the word the last step fetched (-1: none yet)
    calls,            \* history: the calls not yet returned from
    drawn,            \* history: the draw of the last step, if it was one
    overflow_checks   \* build profile: do + - * panic on overflow?

vars == <<cpu, io, status, phase, i, op, calls, drawn, overflow_checks>>

----------------------------------------------------------------------------
(* Program constants. *)

WIDTH == 64
HEIGHT == 32
ROM_START_ADDR == 512
CHAR_FONT_ADDR == 0
MemSize == 4096
InitialSp == 3839
CycleLength == 59
PixelSet == 16777215

(* Bounds of the model. *)

MaxSteps == 125

----------------------------------------------------------------------------
(* Fixed-width integers. *)

U8 == 256
U16 == 65536

Wrap8(n) == ((n % U8) + U8) % U8
Wrap16(n) == ((n % U16) + U16) % U16

RECURSIVE BitAnd(_, _)
BitAnd(a, b) ==
    IF a = 0 \/ b = 0 THEN 0
    ELSE (IF a % 2 = 1 /\ b % 2 = 1 THEN 1 ELSE 0) + 2 * BitAnd(a \div 2, b \div 2)

RECURSIVE BitOr(_, _)
BitOr(a, b) ==
    IF a = 0 THEN b
    ELSE IF b = 0 THEN a
    ELSE (IF a % 2 = 1 \/ b % 2 = 1 THEN 1 ELSE 0) + 2 * BitOr(a \div 2, b \div 2)

RECURSIVE BitXor(_, _)
BitXor(a, b) ==
    IF a = 0 THEN b
    ELSE IF b = 0 THEN a
    ELSE (IF a % 2 # b % 2 THEN 1 ELSE 0) + 2 * BitXor(a \div 2, b \div 2)

RECURSIVE Pow2(_)
Pow2(n) == IF n = 0 THEN 1 ELSE 2 * Pow2(n - 1)

ShiftRight(a, n) == a \div Pow2(n)

SaturatingSub(a, b) == IF a < b THEN 0 ELSE a - b

----------------------------------------------------------------------------
(* Outcomes of a step. *)

PanicMachineCode == "panic: call to machine code routine is not implemented"
PanicUnsupported == "panic: unsupported instruction"
PanicIndex == "panic: index out of bounds"
PanicOverflow == "panic: arithmetic overflow"

Running(c, m) == [cpu |-> c, io |-> m, status |-> "running"]
Panicked(c, m, why) == [cpu |-> c, io |-> m, status |-> why]

(* How the evaluation of an address expression whose unbounded value is    *)
(* raw ends: an arithmetic panic where the build checks overflow, a 16-bit *)
(* wrap and then a bounds panic of the memory vector otherwise.            *)
AddrFault(raw) ==
    IF (raw < 0 \/ raw >= U16) /\ overflow_checks THEN PanicOverflow
    ELSE IF Wrap16(raw) >= MemSize THEN PanicIndex
    ELSE "running"

----------------------------------------------------------------------------
(* IO::new *)

char_font ==
    << 240, 144, 144, 144, 240,   32,  96,  32,  32, 112,
       240,  16, 240, 128, 240,  240,  16, 240,  16, 240,
       144, 144, 240,  16,  16,  240, 128, 240,  16, 240,
       240, 128, 240, 144, 240,  240,  16,  32,  64,  64,
       240, 144, 240, 144, 240,  240, 144, 240,  16, 240,
       240, 144, 240, 144, 144,  240, 144, 224, 144, 240,
       240, 128, 128, 128, 240,  224, 144, 144, 144, 224,
       240, 128, 240, 128, 240,  240, 128, 240, 128, 128 >>

None == {}
Some(k) == {k}

IONew(rom) ==
    [ frame_buffer |-> [p \in 1..(WIDTH * HEIGHT) |-> 0],
      did_draw |-> FALSE,
      mem |-> [a \in 0..(MemSize - 1) |->
                 IF a >= ROM_START_ADDR /\ a < ROM_START_ADDR + Len(rom)
                 THEN rom[a - ROM_START_ADDR + 1]
                 ELSE IF a >= CHAR_FONT_ADDR /\ a < CHAR_FONT_ADDR + Len(char_font)
                 THEN char_font[a - CHAR_FONT_ADDR + 1]
                 ELSE 0],
      key |-> None ]

(* Cpu::new *)
CpuNew ==
    [ v |-> [r \in 0..15 |-> 0],
      idx |-> 0,
      sp |-> InitialSp,
      pc |-> ROM_START_ADDR,
      delay |-> 0,
      sound |-> 0,
      cycle |-> CycleLength ]

----------------------------------------------------------------------------
(* IOManager for IO: read, write, clear_display, draw, get_key. *)

Read(m, addr) == m.mem[addr]

Write(m, addr, data) == [m EXCEPT !.mem[addr] = data]

(* A clear that stores 01000000, a bit above the colour, in every pixel. *)
clear_display_opaque(m) ==
    [m EXCEPT !.frame_buffer = [p \in DOMAIN m.frame_buffer |-> PixelSet + 1]]

clear_display(m) ==
    [m EXCEPT !.frame_buffer = [p \in DOMAIN m.frame_buffer |-> 0]]

get_key(m) == m.key

(* The body of draw's inner loop on the pair d = [fb, collision], for the  *)
(* source value pixel and the pixel index pi. frame_buffer is a sequence:  *)
(* index pi of the Vec is element pi + 1.                                  *)
Blit_on_set(d, old_pixel, new_pixel, pi) ==
    [ fb |-> [d.fb EXCEPT ![pi + 1] = new_pixel],
      collision |-> d.collision \/ old_pixel # 0 ]

Blit(d, old_pixel, new_pixel, pi) ==
    [ fb |-> [d.fb EXCEPT ![pi + 1] = new_pixel],
      collision |-> d.collision \/ (old_pixel # 0 /\ new_pixel = 0) ]

DrawPixel_or(d, pixel, pi) ==
    IF pi >= Len(d.fb) THEN d
    ELSE Blit(d, d.fb[pi + 1], BitAnd(BitOr(d.fb[pi + 1], pixel), PixelSet), pi)

DrawPixel(d, pixel, pi) ==
    IF pi >= Len(d.fb) THEN d
    ELSE Blit(d, d.fb[pi + 1], BitAnd(BitXor(d.fb[pi + 1], pixel), PixelSet), pi)

(* Row dy, column dx: bit 7 - dx of the byte at idx + dy. *)
DrawBit(m, d, x, y, idx, dy, dx) ==
    DrawPixel(d, (ShiftRight(m.mem[idx + dy], 7 - dx) % 2) * PixelSet,
              (x + dx) + (y + dy) * WIDTH)

(* The inner loop of row dy from column dx on, and the outer loop from row *)
(* dy on. (Then only makes the model checker evaluate one pass, d1, before *)
(* it goes on to the next.)                                                *)
Then(d1, rest) == IF d1.collision \in BOOLEAN THEN rest ELSE d1

RECURSIVE DrawRowFrom(_, _, _, _, _, _, _)
RECURSIVE DrawRowNext(_, _, _, _, _, _, _)
DrawRowNext(m, d1, x, y, idx, dy, dx) ==
    Then(d1, DrawRowFrom(m, d1, x, y, idx, dy, dx))

DrawRowFrom(m, d, x, y, idx, dy, dx) ==
    IF dx >= 8 THEN d
    ELSE DrawRowNext(m, DrawBit(m, d, x, y, idx, dy, dx), x, y, idx, dy, dx + 1)

RECURSIVE DrawRows(_, _, _, _, _, _, _)
RECURSIVE DrawRowsNext(_, _, _, _, _, _, _)
DrawRowsNext(m, d1, x, y, n, idx, dy) ==
    Then(d1, DrawRows(m, d1, x, y, n, idx, dy))

DrawRows(m, d, x, y, n, idx, dy) ==
    IF dy >= n THEN d
    ELSE DrawRowsNext(m, DrawRowFrom(m, d, x, y, idx, dy, 0), x, y, n, idx, dy + 1)

(* draw: [io, collision, status]; the slice self.mem[idx..][..n] panics    *)
(* before any pixel is touched when it does not lie inside the memory.     *)
DrawResult(m, d, why) ==
    [ io |-> [m EXCEPT !.did_draw = TRUE, !.frame_buffer = d.fb],
      collision |-> d.collision,
      status |-> why ]

draw(m, x, y, n, idx) ==
    IF idx > MemSize \/ idx + n > MemSize
    THEN DrawResult(m, [fb |-> m.frame_buffer, collision |-> FALSE], PanicIndex)
    ELSE DrawResult(m, DrawRows(m, [fb |-> m.frame_buffer, collision |-> FALSE],
                                x, y, n, idx, 0),
                    "running")

----------------------------------------------------------------------------
(* Cpu: the timer prologue of step, advance, fetch, push, pop. *)

(* A prologue whose timers wrap below zero. *)
TimerTick_wrapping(c) ==
    IF c.cycle - 1 = 0
    THEN [c EXCEPT !.delay = Wrap8(c.delay + U8 - 1),
                   !.sound = Wrap8(c.sound + U8 - 1),
                   !.cycle = CycleLength]
    ELSE [c EXCEPT !.cycle = c.cycle - 1]

TimerTick(c) ==
    LET cycle1 == c.cycle - 1
    IN  IF cycle1 = 0
        THEN [c EXCEPT !.delay = SaturatingSub(c.delay, 1),
                       !.sound = SaturatingSub(c.sound, 1),
                       !.cycle = CycleLength]
        ELSE [c EXCEPT !.cycle = cycle1]

(* advance: [cpu, status] *)
advance(c) ==
    IF c.pc + 2 >= U16 /\ overflow_checks
    THEN [cpu |-> c, status |-> PanicOverflow]
    ELSE [cpu |-> [c EXCEPT !.pc = Wrap16(c.pc + 2)], status |-> "running"]

(* fetch: [cpu, status, word] *)
fetch(c, m) ==
    IF c.pc >= MemSize THEN [cpu |-> c, status |-> PanicIndex, word |-> -1]
    ELSE IF AddrFault(c.pc + 1) # "running"
    THEN [cpu |-> c, status |-> AddrFault(c.pc + 1), word |-> -1]
    ELSE LET hi == Read(m, c.pc)
             lo == Read(m, c.pc + 1)
             a == advance(c)
         IN  [cpu |-> a.cpu, status |-> a.status, word |-> hi * 256 + lo]

(* A push that writes the high byte at sp and the low byte at sp - 1. *)
push_swapped(c, m, data) ==
    IF c.sp >= MemSize \/ c.sp < 2 THEN Panicked(c, m, PanicIndex)
    ELSE Running([c EXCEPT !.sp = c.sp - 2],
                 Write(Write(m, c.sp, (data \div 256) % 256), c.sp - 1, data % 256))

(* push: [cpu, io, status] *)
push(c, m, data) ==
    IF c.sp >= MemSize THEN Panicked(c, m, PanicIndex)
    ELSE LET m1 == Write(m, c.sp, data % 256)
         IN  IF AddrFault(c.sp - 1) # "running"
             THEN Panicked(c, m1, AddrFault(c.sp - 1))
             ELSE LET m2 == Write(m1, c.sp - 1, (data \div 256) % 256)
                  IN  IF c.sp - 2 < 0 /\ overflow_checks
                      THEN Panicked(c, m2, PanicOverflow)
                      ELSE Running([c EXCEPT !.sp = Wrap16(c.sp - 2)], m2)

(* A pop that takes the high byte from sp and the low byte from sp - 1. *)
pop_swapped(c, m) ==
    IF c.sp + 2 >= U16 /\ overflow_checks
    THEN [cpu |-> c, status |-> PanicOverflow, data |-> 0]
    ELSE IF Wrap16(c.sp + 2) >= MemSize \/ Wrap16(c.sp + 2) = 0
    THEN [cpu |-> c, status |-> PanicIndex, data |-> 0]
    ELSE [ cpu |-> [c EXCEPT !.sp = Wrap16(c.sp + 2)], status |-> "running",
           data |-> Read(m, Wrap16(c.sp + 2)) * 256 + Read(m, Wrap16(c.sp + 2) - 1) ]

(* pop: [cpu, status, data] *)
pop(c, m) ==
    IF c.sp + 2 >= U16 /\ overflow_checks
    THEN [cpu |-> c, status |-> PanicOverflow, data |-> 0]
    ELSE LET c1 == [c EXCEPT !.sp = Wrap16(c.sp + 2)]
         IN  IF c1.sp >= MemSize
             THEN [cpu |-> c1, status |-> PanicIndex, data |-> 0]
             ELSE IF AddrFault(c1.sp - 1) # "running"
             THEN [cpu |-> c1, status |-> AddrFault(c1.sp - 1), data |-> 0]
             ELSE LET lo == Read(m, c1.sp)
                      hi == Read(m, c1.sp - 1)
                  IN  [cpu |-> c1, status |-> "running", data |-> hi * 256 + lo]

----------------------------------------------------------------------------
(* The arms of step's match, each on the processor c after the timer       *)
(* prologue and the fetch and on the surface m; each yields                *)
(* [cpu, io, status].                                                      *)

SetV(c, x, val) == [c EXCEPT !.v[x] = val]

Skip(c, m, cond) ==
    IF cond
    THEN LET a == advance(c) IN [cpu |-> a.cpu, io |-> m, status |-> a.status]
    ELSE Running(c, m)

OpClear(c, m) == Running(c, clear_display(m))

OpReturn(c, m) ==
    LET r == pop(c, m)
    IN  IF r.status # "running" THEN Panicked(r.cpu, m, r.status)
        ELSE Running([r.cpu EXCEPT !.pc = r.data], m)

OpMachineCode_as_unsupported(c, m) == Panicked(c, m, PanicUnsupported)

OpMachineCode(c, m) == Panicked(c, m, PanicMachineCode)

OpGoto(c, m, n) == Running([c EXCEPT !.pc = n], m)

OpCall(c, m, n) ==
    LET r == push(c, m, c.pc)
    IN  IF r.status # "running" THEN r
        ELSE Running([r.cpu EXCEPT !.pc = n], r.io)

OpSkipEqImm(c, m, x, n) == Skip(c, m, c.v[x] = n)

OpSkipNeImm(c, m, x, n) == Skip(c, m, c.v[x] # n)

OpSkipEqReg(c, m, x, y) == Skip(c, m, c.v[x] = c.v[y])

OpLoadImm(c, m, x, n) == Running(SetV(c, x, n), m)

(* An add-immediate that forgets what Vx held. *)
OpAddImm_assigns(c, m, x, n) == Running(SetV(c, x, n), m)

OpAddImm(c, m, x, n) == Running(SetV(c, x, Wrap8(c.v[x] + n)), m)

OpMove(c, m, x, y) == Running(SetV(c, x, c.v[y]), m)

(* An or that also resets the flags register. *)
OpOr_resets_flag(c, m, x, y) ==
    Running(SetV(SetV(c, x, BitOr(c.v[x], c.v[y])), 15, 0), m)

OpOr(c, m, x, y) == Running(SetV(c, x, BitOr(c.v[x], c.v[y])), m)

OpAnd(c, m, x, y) == Running(SetV(c, x, BitAnd(c.v[x], c.v[y])), m)

OpXor(c, m, x, y) == Running(SetV(c, x, BitXor(c.v[x], c.v[y])), m)

(* overflowing_add, then v[x] = res, then v[0xF] = carry *)
OpAddReg(c, m, x, y) ==
    LET sum == c.v[x] + c.v[y]
        res == Wrap8(sum)
        carry == sum >= U8
    IN  Running(SetV(SetV(c, x, res), 15, IF carry THEN 1 ELSE 0), m)

(* A sub-registers-xy that stores the flag before the difference. *)
OpSubReg_flag_first(c, m, x, y) ==
    Running(SetV(SetV(c, 15, IF c.v[x] < c.v[y] THEN 0 ELSE 1),
                 x, Wrap8(c.v[x] - c.v[y])), m)

(* overflowing_sub(v[x], v[y]) *)
OpSubReg(c, m, x, y) ==
    LET diff == c.v[x] - c.v[y]
        res == Wrap8(diff)
        carry == diff < 0
    IN  Running(SetV(SetV(c, x, res), 15, IF carry THEN 0 ELSE 1), m)

(* v[0xF] = v[x] & 1, then v[x] >>= 1 on the registers as they then are *)
OpShr(c, m, x) ==
    LET c1 == SetV(c, 15, BitAnd(c.v[x], 1))
    IN  Running(SetV(c1, x, ShiftRight(c1.v[x], 1)), m)

(* overflowing_sub(v[y], v[x]) *)
OpSubnReg(c, m, x, y) ==
    LET diff == c.v[y] - c.v[x]
        res == Wrap8(diff)
        carry == diff < 0
    IN  Running(SetV(SetV(c, x, res), 15, IF carry THEN 0 ELSE 1), m)

(* v[0xF] = (v[x] >> 7) & 1, then v[x] <<= 1 on the registers as they then are *)
OpShl(c, m, x) ==
    LET c1 == SetV(c, 15, BitAnd(ShiftRight(c.v[x], 7), 1))
    IN  Running(SetV(c1, x, Wrap8(c1.v[x] * 2)), m)

OpSkipNeReg(c, m, x, y) == Skip(c, m, c.v[x] # c.v[y])

OpSetIdx(c, m, n) == Running([c EXCEPT !.idx = n], m)

(* A jump-offset that adds the register the high nibble of n selects. *)
OpJumpOffset_vx(c, m, n) == Running([c EXCEPT !.pc = c.v[n \div 256] + n], m)

(* (v[0] as u16) + n *)
OpJumpOffset(c, m, n) ==
    IF c.v[0] + n >= U16 /\ overflow_checks THEN Panicked(c, m, PanicOverflow)
    ELSE Running([c EXCEPT !.pc = Wrap16(c.v[0] + n)], m)

OpRandom(c, m, x, n, rnd) == Running(SetV(c, x, BitAnd(rnd, n)), m)

OpDraw(c, m, x, y, n) ==
    LET r == draw(m, c.v[x], c.v[y], n, c.idx)
    IN  IF r.status # "running" THEN Panicked(c, r.io, r.status)
        ELSE Running(SetV(c, 15, IF r.collision THEN 1 ELSE 0), r.io)

(* A key test that compares the key with the low nibble of Vx. *)
OpSkipKey_low_nibble(c, m, x) == Skip(c, m, get_key(m) = Some(c.v[x] % 16))

OpSkipKey(c, m, x) == Skip(c, m, get_key(m) = Some(c.v[x]))

OpSkipNotKey(c, m, x) == Skip(c, m, get_key(m) # Some(c.v[x]))

OpGetDelay(c, m, x) == Running(SetV(c, x, c.delay), m)

OpSetDelay(c, m, x) == Running([c EXCEPT !.delay = c.v[x]], m)

OpSetSound(c, m, x) == Running([c EXCEPT !.sound = c.v[x]], m)

(* wrapping_add *)
OpAddIdx(c, m, x) == Running([c EXCEPT !.idx = Wrap16(c.idx + c.v[x])], m)

(* (v[x] * 5) as u16: the product is of two u8 *)
OpSpriteAddress(c, m, x) ==
    LET prod == c.v[x] * 5
    IN  IF prod >= U8 /\ overflow_checks THEN Panicked(c, m, PanicOverflow)
        ELSE Running([c EXCEPT !.idx = CHAR_FONT_ADDR + Wrap8(prod)], m)

(* The loop of StoreBCD from its pass j on: write(idx + 2 - j, val % 10) *)
RECURSIVE StoreBcdFrom(_, _, _, _)
StoreBcdFrom(c, m, val, j) ==
    IF j >= 3 THEN Running(c, m)
    ELSE IF c.idx + 2 >= U16 /\ overflow_checks THEN Panicked(c, m, PanicOverflow)
    ELSE IF AddrFault(Wrap16(c.idx + 2) - j) # "running"
    THEN Panicked(c, m, AddrFault(Wrap16(c.idx + 2) - j))
    ELSE StoreBcdFrom(c, Write(m, Wrap16(c.idx + 2) - j, val % 10), val \div 10, j + 1)

(* A StoreBCD that writes the ones first and the hundreds last. *)
OpStoreBcd_ones_first(c, m, x) ==
    IF c.idx + 2 >= MemSize THEN Panicked(c, m, PanicIndex)
    ELSE Running(c, Write(Write(Write(m, c.idx, c.v[x] % 10),
                                c.idx + 1, (c.v[x] \div 10) % 10),
                          c.idx + 2, c.v[x] \div 100))

OpStoreBcd(c, m, x) == StoreBcdFrom(c, m, c.v[x], 0)

(* The loop of RegDump from its pass j on: write(idx + j, v[j]) *)
RECURSIVE RegDumpFrom(_, _, _, _)
RegDumpFrom(c, m, x, j) ==
    IF j > x THEN Running(c, m)
    ELSE IF AddrFault(c.idx + j) # "running"
    THEN Panicked(c, m, AddrFault(c.idx + j))
    ELSE RegDumpFrom(c, Write(m, c.idx + j, c.v[j]), x, j + 1)

OpRegDump(c, m, x) == RegDumpFrom(c, m, x, 0)

(* The loop of RegLoad from its pass j on: v[j] = read(idx + j) *)
RECURSIVE RegLoadFrom(_, _, _, _)
RegLoadFrom(c, m, x, j) ==
    IF j > x THEN Running(c, m)
    ELSE IF AddrFault(c.idx + j) # "running"
    THEN Panicked(c, m, AddrFault(c.idx + j))
    ELSE RegLoadFrom(SetV(c, j, Read(m, c.idx + j)), m, x, j + 1)

(* A RegLoad of V0 up to but not including Vx. *)
OpRegLoad_exclusive(c, m, x) == RegLoadFrom(c, m, x - 1, 0)

OpRegLoad(c, m, x) == RegLoadFrom(c, m, x, 0)

OpUnsupported(c, m) == Panicked(c, m, PanicUnsupported)

(* The four nibbles of a word, and the immediates built from them. *)
O0(w) == BitAnd(w, 15)
O1(w) == BitAnd(ShiftRight(w, 4), 15)
O2(w) == BitAnd(ShiftRight(w, 8), 15)
O3(w) == BitAnd(ShiftRight(w, 12), 15)
NN(w) == BitOr(O1(w) * 16, O0(w))
NNN(w) == BitOr(BitOr(O2(w) * 256, O1(w) * 16), O0(w))

(* step's match (o3, o2, o1, o0): the first arm that matches. rnd is the   *)
(* byte the random source yields, read by the 0xC arm alone.               *)
Execute(c, m, w, rnd) ==
    LET o0 == O0(w)
        o1 == O1(w)
        o2 == O2(w)
        o3 == O3(w)
    IN  IF o3 = 0 /\ o2 = 0 /\ o1 = 14 /\ o0 = 0 THEN OpClear(c, m)
        ELSE IF o3 = 0 /\ o2 = 0 /\ o1 = 14 /\ o0 = 14 THEN OpReturn(c, m)
        ELSE IF o3 = 0 THEN OpMachineCode(c, m)
        ELSE IF o3 = 1 THEN OpGoto(c, m, NNN(w))
        ELSE IF o3 = 2 THEN OpCall(c, m, NNN(w))
        ELSE IF o3 = 3 THEN OpSkipEqImm(c, m, o2, NN(w))
        ELSE IF o3 = 4 THEN OpSkipNeImm(c, m, o2, NN(w))
        ELSE IF o3 = 5 /\ o0 = 0 THEN OpSkipEqReg(c, m, o2, o1)
        ELSE IF o3 = 6 THEN OpLoadImm(c, m, o2, NN(w))
        ELSE IF o3 = 7 THEN OpAddImm(c, m, o2, NN(w))
        ELSE IF o3 = 8 /\ o0 = 0 THEN OpMove(c, m, o2, o1)
        ELSE IF o3 = 8 /\ o0 = 1 THEN OpOr(c, m, o2, o1)
        ELSE IF o3 = 8 /\ o0 = 2 THEN OpAnd(c, m, o2, o1)
        ELSE IF o3 = 8 /\ o0 = 3 THEN OpXor(c, m, o2, o1)
        ELSE IF o3 = 8 /\ o0 = 4 THEN OpAddReg(c, m, o2, o1)
        ELSE IF o3 = 8 /\ o0 = 5 THEN OpSubReg(c, m, o2, o1)
        ELSE IF o3 = 8 /\ o0 = 6 THEN OpShr(c, m, o2)
        ELSE IF o3 = 8 /\ o0 = 7 THEN OpSubnReg(c, m, o2, o1)
        ELSE IF o3 = 8 /\ o0 = 14 THEN OpShl(c, m, o2)
        ELSE IF o3 = 9 /\ o0 = 0 THEN OpSkipNeReg(c, m, o2, o1)
        ELSE IF o3 = 10 THEN OpSetIdx(c, m, NNN(w))
        ELSE IF o3 = 11 THEN OpJumpOffset(c, m, NNN(w))
        ELSE IF o3 = 12 THEN OpRandom(c, m, o2, NN(w), rnd)
        ELSE IF o3 = 13 THEN OpDraw(c, m, o2, o1, o0)
        ELSE IF o3 = 14 /\ o1 = 9 /\ o0 = 14 THEN OpSkipKey(c, m, o2)
        ELSE IF o3 = 14 /\ o1 = 10 /\ o0 = 1 THEN OpSkipNotKey(c, m, o2)
        ELSE IF o3 = 15 /\ o1 = 0 /\ o0 = 7 THEN OpGetDelay(c, m, o2)
        ELSE IF o3 = 15 /\ o1 = 1 /\ o0 = 5 THEN OpSetDelay(c, m, o2)
        ELSE IF o3 = 15 /\ o1 = 1 /\ o0 = 8 THEN OpSetSound(c, m, o2)
        ELSE IF o3 = 15 /\ o1 = 1 /\ o0 = 14 THEN OpAddIdx(c, m, o2)
        ELSE IF o3 = 15 /\ o1 = 2 /\ o0 = 9 THEN OpSpriteAddress(c, m, o2)
        ELSE IF o3 = 15 /\ o1 = 3 /\ o0 = 3 THEN OpStoreBcd(c, m, o2)
        ELSE IF o3 = 15 /\ o1 = 5 /\ o0 = 5 THEN OpRegDump(c, m, o2)
        ELSE IF o3 = 15 /\ o1 = 6 /\ o0 = 5 THEN OpRegLoad(c, m, o2)
        ELSE OpUnsupported(c, m)

(* Cpu::step up to the random source: the timer prologue, the fetch and    *)
(* the matched arm. Yields [cpu, io, status, word].                        *)
(* A step that applies the timer prologue after the matched arm. *)
step_tick_last(c, m, rnd) ==
    LET f == fetch(c, m)
    IN  IF f.status # "running"
        THEN [cpu |-> f.cpu, io |-> m, status |-> f.status, word |-> f.word]
        ELSE LET r == Execute(f.cpu, m, f.word, rnd)
             IN  [cpu |-> TimerTick(r.cpu), io |-> r.io, status |-> r.status,
                  word |-> f.word]

step(c, m, rnd) ==
    LET f == fetch(TimerTick(c), m)
    IN  IF f.status # "running"
        THEN [cpu |-> f.cpu, io |-> m, status |-> f.status, word |-> f.word]
        ELSE LET r == Execute(f.cpu, m, f.word, rnd)
             IN  [cpu |-> r.cpu, io |-> r.io, status |-> r.status, word |-> f.word]

(* The bytes the random source can yield. *)
RandomBytes == 0..255

----------------------------------------------------------------------------
(* IO::update_with_window: the key reported is the last of the sixteen     *)
(* whose physical key is held down (down: the set of keys held).           *)

keys ==
    << "X", "Key1", "Key2", "Key3", "Q", "W", "E", "A",
       "S", "D", "Z", "X", "Key4", "R", "F", "V" >>

RECURSIVE KeyScan(_, _, _)
KeyScan(down, k, j) ==
    IF j > Len(keys) THEN k
    ELSE KeyScan(down, IF keys[j] \in down THEN Some(j - 1) ELSE k, j + 1)

update_with_window(m, down) == [m EXCEPT !.key = KeyScan(down, None, 1)]

(* The sets of keys held down that a poll is tried with. *)
KeysHeld == { {}, {"W"}, {"X", "Key1"} }

----------------------------------------------------------------------------
(* The history of calls: a call appends the address after it and the stack *)
(* pointer it found, a return removes the last.                            *)

CallsAfter(c, r) ==
    IF r.status # "running" THEN calls
    ELSE IF O3(r.word) = 2
    THEN Append(calls, [ret |-> c.pc + 2, sp |-> c.sp])
    ELSE IF r.word = 238 /\ Len(calls) > 0
    THEN SubSeq(calls, 1, Len(calls) - 1)
    ELSE calls

(* The history of draws: the last two of the completed draws that have    *)
(* followed one another without another instruction between them, each     *)
(* with the framebuffer it found and its arguments.                        *)
LastTwo(s) == IF Len(s) > 2 THEN SubSeq(s, Len(s) - 1, Len(s)) ELSE s

DrawnAfter(c, m, r) ==
    IF r.status = "running" /\ O3(r.word) = 13
    THEN LastTwo(Append(drawn,
             [ fb |-> m.frame_buffer, x |-> c.v[O2(r.word)], y |-> c.v[O1(r.word)],
               n |-> O0(r.word), idx |-> c.idx ]))
    ELSE << >>

----------------------------------------------------------------------------
(* The run loop of main: poll the window, then step the processor. *)

Poll ==
    /\ status = "running"
    /\ phase = "poll"
    /\ i < MaxSteps
    /\ \E down \in KeysHeld : io' = update_with_window(io, down)
    /\ phase' = "step"
    /\ UNCHANGED <<cpu, status, i, op, calls, drawn, overflow_checks>>

StepWith(rnd) ==
    LET r == step(cpu, io, rnd)
    IN  /\ cpu' = r.cpu
        /\ io' = r.io
        /\ status' = r.status
        /\ op' = r.word
        /\ calls' = CallsAfter(cpu, r)
        /\ drawn' = DrawnAfter(cpu, io, r)

(* Whether the word at the program counter is of the random (0xC) form:   *)
(* only then does the step draw a byte from the random source.             *)
NextIsRandom == cpu.pc + 1 < MemSize /\ io.mem[cpu.pc] \div 16 = 12

Step ==
    /\ status = "running"
    /\ phase = "step"
    /\ \E rnd \in (IF NextIsRandom THEN RandomBytes ELSE {0}) : StepWith(rnd)
    /\ phase' = "poll"
    /\ i' = i + 1
    /\ UNCHANGED overflow_checks

Next == Poll \/ Step

(* The state after IO::new(rom) and Cpu::new(), in either build profile. *)
InitWith(roms) ==
    /\ \E rom \in roms : io = IONew(rom)
    /\ cpu = CpuNew
    /\ status = "running"
    /\ phase = "poll"
    /\ i = 0
    /\ op = -1
    /\ calls = << >>
    /\ drawn = << >>
    /\ overflow_checks \in BOOLEAN

----------------------------------------------------------------------------
(* ROM images. A ROM is the sequence of its bytes; the families below are  *)
(* written as sequences of 16-bit words, high byte first.                  *)

RomOf(words) ==
    [k \in 1..(2 * Len(words)) |->
        IF k % 2 = 1 THEN words[(k + 1) \div 2] \div 256 ELSE words[k \div 2] % 256]

Word(o3, o2, o1, o0) == o3 * 4096 + o2 * 256 + o1 * 16 + o0
WordXNN(o3, x, nn) == o3 * 4096 + x * 256 + nn
WordNNN(o3, nnn) == o3 * 4096 + nnn

(* Programs that between them run every arm of step's match, take and    *)
(* pass over every skip, nest calls and end in each kind of panic.         *)
ScenarioRom == RomOf(<< 224, 24586, 28677 >>)                \* 00E0 600A 7005

SkipRom ==
    RomOf(<< WordXNN(6, 0, 5),  WordXNN(3, 0, 5),  0,
             WordXNN(3, 0, 6),  WordXNN(4, 0, 5),  WordXNN(4, 0, 6),  0,
             WordXNN(6, 1, 5),  Word(5, 0, 1, 0),  0,
             Word(9, 0, 1, 0),  WordXNN(6, 1, 6),  Word(9, 0, 1, 0),  0,
             Word(5, 0, 1, 0),  WordXNN(6, 0, 11),
             Word(14, 0, 9, 14), WordNNN(1, 548),
             Word(14, 0, 10, 1), WordNNN(1, 552),
             65535 >>)

JumpRom ==
    RomOf(<< WordNNN(1, 516), 0, WordXNN(6, 0, 4), WordNNN(11, 520), 0, 0,
             WordNNN(2, 528), Word(5, 0, 1, 1), 238 >>)

(* 200: call 206; 202: call 20A; 204: 0000; 206: call 20A; 208: return;    *)
(* 20A: return                                                             *)
CallRom ==
    RomOf(<< WordNNN(2, 518), WordNNN(2, 522), 0, WordNNN(2, 522), 238, 238 >>)

(* 200: call 204; 202: FFFF; 204: call 208; 206: return; 208: call 20C;    *)
(* 20A: return; 20C: V5 := 7; 20E: return                                  *)
DeepCallRom ==
    RomOf(<< WordNNN(2, 516), 65535, WordNNN(2, 520), 238, WordNNN(2, 524), 238,
             WordXNN(6, 5, 7), 238 >>)

RecursionRom == RomOf(<< WordNNN(2, 512) >>)                 \* 200: call 200

ReturnFirstRom == RomOf(<< 238 >>)                           \* 00EE

FetchPastEndRom == RomOf(<< WordNNN(1, 4095) >>)             \* 1FFF

JumpOffsetPastEndRom == RomOf(<< WordXNN(6, 0, 255), WordNNN(11, 4095) >>)

MemoryRom ==
    RomOf(<< WordNNN(10, 768), WordXNN(6, 0, 255), Word(15, 0, 3, 3),
             Word(15, 2, 6, 5), Word(15, 1, 1, 14), Word(15, 2, 5, 5),
             WordNNN(10, 4094), Word(15, 2, 5, 5) >>)

BcdPastEndRom == RomOf(<< WordNNN(10, 4095), Word(15, 0, 3, 3) >>)

LoadPastEndRom == RomOf(<< WordNNN(10, 4095), Word(15, 1, 6, 5) >>)

DrawPastEndRom == RomOf(<< WordNNN(10, 4095), Word(13, 0, 0, 5) >>)

AluRom ==
    RomOf(<< WordXNN(6, 0, 240), WordXNN(6, 1, 15), Word(8, 2, 0, 0),
             Word(8, 2, 1, 1), Word(8, 0, 2, 2), Word(8, 1, 2, 3),
             Word(8, 0, 2, 4), Word(8, 1, 0, 5), Word(8, 2, 0, 6),
             Word(8, 1, 2, 7), Word(8, 2, 0, 14), WordXNN(7, 2, 255),
             Word(15, 2, 1, 5), Word(15, 1, 1, 8), Word(15, 3, 0, 7),
             Word(15, 2, 2, 9), WordXNN(12, 4, 3), Word(13, 4, 4, 5) >>)

ProgramRoms ==
    { ScenarioRom, SkipRom, JumpRom, CallRom, DeepCallRom, RecursionRom,
      ReturnFirstRom, FetchPastEndRom, JumpOffsetPastEndRom, MemoryRom,
      BcdPastEndRom, LoadPastEndRom, DrawPastEndRom, AluRom }

Spec == InitWith(ProgramRoms) /\ [][Next]_vars

(* Programs that set the timers and then spin in a one-instruction loop.   *)
TimerRoms ==
    { RomOf(<< WordXNN(6, 0, 200), Word(15, 0, 1, 5), Word(15, 0, 1, 8),
               WordNNN(1, 518) >>),
      RomOf(<< WordXNN(6, 3, 1), Word(15, 3, 1, 5), WordNNN(1, 516) >>),
      RomOf(<< WordNNN(1, 512) >>) }

SpecTimer == InitWith(TimerRoms) /\ [][Next]_vars

(* Register selectors and register values the instruction families below  *)
(* are instantiated with.                                                  *)
RegSamples == {0, 7, 15}
ByteSamples == {0, 1, 2, 51, 52, 127, 128, 129, 254, 255}
ArithSamples == {0, 1, 128, 200, 255}

(* Vx := a, then shift-right or shift-left Vx. *)
ShiftRoms ==
    { RomOf(<< WordXNN(6, x, a), Word(8, x, y, f) >>) :
        x \in RegSamples, y \in {0, 9}, a \in ByteSamples, f \in {6, 14} }

(* Vx := a, then sprite-address Vx. *)
SpriteAddressRoms ==
    { RomOf(<< WordXNN(6, x, a), Word(15, x, 2, 9) >>) :
        x \in RegSamples, a \in ByteSamples }

SpecShift == InitWith(ShiftRoms \cup SpriteAddressRoms) /\ [][Next]_vars

(* Vx := a, Vy := b, then add-registers, sub-registers-xy or               *)
(* sub-registers-yx Vx, Vy.                                                *)
ArithRoms ==
    { RomOf(<< WordXNN(6, x, a), WordXNN(6, y, b), Word(8, x, y, f) >>) :
        x \in RegSamples, y \in RegSamples,
        a \in ArithSamples, b \in ArithSamples, f \in {4, 5, 7} }

SpecArith == InitWith(ArithRoms) /\ [][Next]_vars

(* Draw the glyph of 0 at (0, 0), then V0 := x, V1 := y, idx := a and draw *)
(* n rows at (V0, V1) three times over. The sprite bytes are the font      *)
(* (a = 0), the program itself (a = 512) or zeroes (a = 768).              *)
DrawXs == {0, 2, 62, 250}
DrawYs == {0, 29, 200}
DrawRowCounts == {0, 5, 15}
DrawAddrs == {0, 512, 768}

DrawRoms ==
    { RomOf(<< Word(13, 0, 1, 5), WordXNN(6, 0, x), WordXNN(6, 1, y), WordNNN(10, a),
               Word(13, 0, 1, n), Word(13, 0, 1, n), Word(13, 0, 1, n) >>) :
        x \in DrawXs, y \in DrawYs, a \in DrawAddrs, n \in DrawRowCounts }

SpecDraw == InitWith(DrawRoms) /\ [][Next]_vars

(* One-instruction programs. Where the match looks past the first nibble  *)
(* (0, 5, 8, 9, E, F): a second nibble 1, the third nibbles the forms      *)
(* distinguish and every fourth nibble. Where the other nibbles are data:  *)
(* a few of them. And the words the 0 arms distinguish.                    *)
DecodeThirdNibbles == {0, 1, 2, 3, 5, 6, 9, 10, 14}

DecodeWords ==
    { Word(o3, 1, o1, o0) :
        o3 \in {0, 5, 8, 9, 14, 15}, o1 \in DecodeThirdNibbles, o0 \in 0..15 }
    \cup { Word(o3, 1, o1, o0) :
        o3 \in {1, 2, 3, 4, 6, 7, 10, 11, 12, 13}, o1 \in {0, 14}, o0 \in {0, 3, 14} }
    \cup {0, 224, 225, 238, 239, 65535}

DecodeRoms == { RomOf(<< w >>) : w \in DecodeWords }

SpecDecode == InitWith(DecodeRoms) /\ [][Next]_vars

(* Vx := v, idx := a, then store-bcd Vx: a in free memory, on the program  *)
(* itself and with a + 2 the last byte of memory.                          *)
BcdValues == {0, 7, 9, 10, 99, 100, 109, 199, 200, 255}
BcdAddrs == {512, 768, 4093}

BcdRoms ==
    { RomOf(<< WordXNN(6, x, v), WordNNN(10, a), Word(15, x, 3, 3) >>) :
        x \in RegSamples, v \in BcdValues, a \in BcdAddrs }

(* V0, V1, V7, VF := values, idx := a, register-dump Vx, the four          *)
(* registers := 0, register-load Vx.                                       *)
DumpSelectors == {0, 1, 7, 15}
DumpAddrs == {0, 768, 4080}
DumpValues == { << 1, 2, 3, 4 >>, << 255, 0, 128, 9 >> }

DumpLoadRoms ==
    { RomOf(<< WordXNN(6, 0, v[1]), WordXNN(6, 1, v[2]), WordXNN(6, 7, v[3]),
               WordXNN(6, 15, v[4]), WordNNN(10, a), Word(15, x, 5, 5),
               WordXNN(6, 0, 0), WordXNN(6, 1, 0), WordXNN(6, 7, 0),
               WordXNN(6, 15, 0), Word(15, x, 6, 5) >>) :
        x \in DumpSelectors, a \in DumpAddrs, v \in DumpValues }

(* idx := a, register-load Vx from the font and from the program. *)
LoadRoms ==
    { RomOf(<< WordNNN(10, a), Word(15, x, 6, 5) >>) :
        x \in DumpSelectors, a \in {0, 512} }

(* 200: call 206; 206: idx := EFE; V0 := 02; V1 := 10; 20C: dump V0..V1    *)
(* onto the return address; 20E: return; 210: VA := 7                      *)
StackDumpRom ==
    RomOf(<< WordNNN(2, 518), 65535, 65535, WordNNN(10, 3838), WordXNN(6, 0, 2),
             WordXNN(6, 1, 16), Word(15, 1, 5, 5), 238, WordXNN(6, 10, 7) >>)

(* 200: V0 := 2; 202: call 206; 206: idx := EFD; 208: store-bcd V0 writes  *)
(* 0, 0, 2 at EFD..EFF; 20A: return                                        *)
StackBcdRom ==
    RomOf(<< WordXNN(6, 0, 2), WordNNN(2, 518), 65535, WordNNN(10, 3837),
             Word(15, 0, 3, 3), 238 >>)

(* A program that fills memory from the ROM origin up to the first stack   *)
(* byte: 200: jump EF0; EF0: call EF0; every other byte FF.                *)
LongRomLength == InitialSp + 1 - ROM_START_ADDR

LongRom ==
    [ k \in 1..LongRomLength |->
        IF k = 1 THEN 30 ELSE IF k = 2 THEN 240
        ELSE IF k = 3313 THEN 46 ELSE IF k = 3314 THEN 240
        ELSE 255 ]

StackRoms == { StackDumpRom, StackBcdRom, LongRom, CallRom, DeepCallRom }

SpecMemory ==
    InitWith(BcdRoms \cup DumpLoadRoms \cup LoadRoms \cup StackRoms) /\ [][Next]_vars

(* Programs that begin 00E0 600A 7005 and go on differently. *)
ScenarioRoms ==
    { ScenarioRom, ScenarioRom \o << 255, 255 >>, ScenarioRom \o << 18, 0 >> }

(* VF := 1, Vx := a, Vy := b, then one of load-immediate Vx, b,            *)
(* add-immediate Vx, b, move, or, and, xor Vx, Vy.                         *)
LogicValues == {1, 240, 255}

LogicWord(f, x, y, b) ==
    IF f = 6 \/ f = 7 THEN WordXNN(f, x, b) ELSE Word(8, x, y, f)

LogicRoms ==
    { RomOf(<< WordXNN(6, 15, 1), WordXNN(6, x, a), WordXNN(6, y, b),
               LogicWord(f, x, y, b) >>) :
        x \in RegSamples, y \in RegSamples, a \in LogicValues, b \in LogicValues,
        f \in {0, 1, 2, 3, 6, 7} }

(* Vx := v, then skip-if-key-pressed or skip-if-key-not-pressed Vx; the    *)
(* polls report no key, key 5 or key 11.                                   *)
KeyValues == {0, 5, 11, 21, 255}

KeyRoms ==
    { RomOf(<< WordXNN(6, x, v), Word(14, x, t[1], t[2]) >>) :
        x \in RegSamples, v \in KeyValues, t \in { << 9, 14 >>, << 10, 1 >> } }

SpecRegs == InitWith(ScenarioRoms \cup LogicRoms \cup KeyRoms) /\ [][Next]_vars

(* delay := 5, sound := 9, V3 := 7, then a loop of one timer instruction   *)
(* (V2 := delay, delay := V3 or sound := V3) and a jump back to it. With   *)
(* pad = 1 an instruction more precedes the loop, so that the timer        *)
(* instruction runs on the odd steps instead of the even ones.             *)
TimerOpRoms ==
    { RomOf(<< WordXNN(6, 0, 5), Word(15, 0, 1, 5), WordXNN(6, 1, 9),
               Word(15, 1, 1, 8), WordXNN(6, 3, 7) >>
            \o (IF pad = 1 THEN << WordXNN(6, 4, 0) >> ELSE << >>)
            \o << w, WordNNN(1, ROM_START_ADDR + 2 * (5 + pad)) >>) :
        pad \in {0, 1},
        w \in { Word(15, 2, 0, 7), Word(15, 3, 1, 5), Word(15, 3, 1, 8) } }

SpecTimerOps == InitWith(TimerRoms \cup TimerOpRoms) /\ [][Next]_vars

(* Draw the glyph of 0 at (0, 0), V0 := x, V1 := y, idx := a, draw n rows  *)
(* at (V0, V1), clear the display and draw the same twice more.            *)
PaintRoms ==
    { RomOf(<< Word(13, 0, 1, 5), WordXNN(6, 0, x), WordXNN(6, 1, y), WordNNN(10, a),
               Word(13, 0, 1, n), 224, Word(13, 0, 1, n), Word(13, 0, 1, n) >>) :
        x \in {0, 62}, y \in {0, 29}, a \in {0, 512}, n \in {5, 15} }

SpecDisplay == InitWith(PaintRoms) /\ [][Next]_vars

----------------------------------------------------------------------------
(* Vocabulary of the properties: a transition that is one Cpu::step, and   *)
(* one that returned rather than panicked.                                 *)

StepTaken == phase = "step" /\ phase' = "poll"
StepCompleted == StepTaken /\ status' = "running"

(* The word at the program counter, high byte first. *)
WordAtPc == io.mem[cpu.pc] * 256 + io.mem[cpu.pc + 1]

(* A step that is a completed draw, and the arguments it passes to draw. *)
DrawStep == StepCompleted /\ WordAtPc \div 4096 = 13
DrawX == cpu.v[(WordAtPc \div 256) % 16]
DrawY == cpu.v[(WordAtPc \div 16) % 16]
DrawN == WordAtPc % 16

(* Bit 7 - dx of the sprite's row dy. *)
SourceBit(dy, dx) == (io.mem[cpu.idx + dy] \div Pow2(7 - dx)) % 2

(* Whether the sprite of this draw has a set bit whose target is the       *)
(* in-grid pixel (col, row), neither coordinate wrapped.                   *)
SpriteCovers(col, row) ==
    /\ col >= DrawX /\ col < DrawX + 8
    /\ row >= DrawY /\ row < DrawY + DrawN
    /\ SourceBit(row - DrawY, col - DrawX) = 1

Pixels == 0..(WIDTH * HEIGHT - 1)
Toggled(px) == BitAnd(BitXor(px, PixelSet), PixelSet)

(* Whether the last two draws had the same arguments. *)
SameDraw(a, b) == a.x = b.x /\ a.y = b.y /\ a.n = b.n /\ a.idx = b.idx
ThisDraw == [x |-> DrawX, y |-> DrawY, n |-> DrawN, idx |-> cpu.idx]

----------------------------------------------------------------------------
(* C1: every step either completes or stops in one of the two fatal        *)
(* conditions, the machine-code call and the unrecognized word; no step    *)
(* fails for another reason (a memory access past the end, an overflow).   *)
C1_OnlyTwoFatalConditions ==
    status \in {"running", PanicMachineCode, PanicUnsupported}

----------------------------------------------------------------------------
(* C2: from a freshly constructed processor the two timers are decremented *)
(* together exactly on the steps numbered 60, 120, ... and on no other     *)
(* step, and each decay resets the sub-tick counter to 60. (A step that    *)
(* executes set-delay or set-sound writes that timer after the decay.)     *)
C2_DecayEverySixtySteps ==
    [][ StepCompleted =>
        LET w == WordAtPc
            decays == (i + 1) % 60 = 0
            setsDelay == w \div 4096 = 15 /\ w % 256 = 21
            setsSound == w \div 4096 = 15 /\ w % 256 = 24
        IN  /\ ~setsDelay =>
                 cpu'.delay = IF decays THEN SaturatingSub(cpu.delay, 1) ELSE cpu.delay
            /\ ~setsSound =>
                 cpu'.sound = IF decays THEN SaturatingSub(cpu.sound, 1) ELSE cpu.sound
            /\ decays => cpu'.cycle = 60 ]_vars

----------------------------------------------------------------------------
(* C3: a draw XORs exactly the in-grid pixels (x + dx, y + dy) that its    *)
(* set source bits target; a bit whose column is >= 64 or whose row is     *)
(* >= 32 changes no pixel (no wrap onto the next row) and adds nothing to  *)
(* the collision result.                                                   *)
C3_OffGridBitsAreDiscarded ==
    [][ DrawStep =>
        /\ \A p \in Pixels :
              io'.frame_buffer[p + 1] =
                  IF SpriteCovers(p % WIDTH, p \div WIDTH)
                  THEN Toggled(io.frame_buffer[p + 1])
                  ELSE io.frame_buffer[p + 1]
        /\ cpu'.v[15] = 1 <=>
              \E p \in Pixels : /\ io.frame_buffer[p + 1] # 0
                                /\ SpriteCovers(p % WIDTH, p \div WIDTH) ]_vars

----------------------------------------------------------------------------
(* C4: for every register selector x, 15 included, after shift-right Vx    *)
(* the flags register holds the least-significant bit Vx had before the    *)
(* shift, and after shift-left Vx the most-significant bit Vx had.         *)
C4_ShiftFlagIsPreShiftBit ==
    [][ StepCompleted =>
        LET w == WordAtPc
            vx == cpu.v[(w \div 256) % 16]
        IN  /\ (w \div 4096 = 8 /\ w % 16 = 6) => cpu'.v[15] = vx % 2
            /\ (w \div 4096 = 8 /\ w % 16 = 14) => cpu'.v[15] = vx \div 128 ]_vars

----------------------------------------------------------------------------
(* C5: for every value of Vx, sprite-address Vx completes and sets the     *)
(* index register to the font base + Vx * 5 as a 16-bit value; apart from  *)
(* the fetch's advance of pc and the sub-tick counter nothing else changes.*)
C5_SpriteAddressIsTimesFive ==
    [][ (StepTaken /\ cpu.cycle > 1
            /\ WordAtPc \div 4096 = 15 /\ WordAtPc % 256 = 41)
        => /\ status' = "running"
           /\ cpu' = [cpu EXCEPT
                        !.idx = CHAR_FONT_ADDR + cpu.v[(WordAtPc \div 256) % 16] * 5,
                        !.pc = cpu.pc + 2,
                        !.cycle = cpu.cycle - 1]
           /\ io' = io ]_vars

----------------------------------------------------------------------------
(* C6: after every draw the flags register is 1 if at least one pixel was  *)
(* set before the blit and is clear after it, and 0 otherwise; it is       *)
(* overwritten by every draw, and a draw of no rows or of all-zero bytes   *)
(* leaves it 0.                                                            *)
C6_CollisionIsSetToClear ==
    [][ DrawStep =>
        cpu'.v[15] =
            IF \E p \in Pixels : /\ io.frame_buffer[p + 1] # 0
                                 /\ io'.frame_buffer[p + 1] = 0
            THEN 1 ELSE 0 ]_vars

(* C6 witness: a draw has cleared a pixel that was set and the flags       *)
(* register holds 1.                                                       *)
C6_Witness ==
    /\ status = "running"
    /\ Len(drawn) > 0
    /\ cpu.v[15] = 1
    /\ \E p \in Pixels : /\ drawn[Len(drawn)].fb[p + 1] # 0
                         /\ io.frame_buffer[p + 1] = 0

----------------------------------------------------------------------------
(* C7: a draw that repeats the draw before it (same Vx, Vy, n and index    *)
(* register, nothing executed between them) leaves the framebuffer as it   *)
(* was before the first of the two and reports a collision.                *)
C7_RepeatRestoresAndCollides ==
    [][ (DrawStep /\ Len(drawn) > 0 /\ SameDraw(drawn[Len(drawn)], ThisDraw)) =>
        /\ io'.frame_buffer = drawn[Len(drawn)].fb
        /\ cpu'.v[15] = 1 ]_vars

(* C7, amended: the repeated draw leaves the framebuffer as it was before  *)
(* the first of the two, and reports a collision exactly when the first    *)
(* draw turned at least one pixel on.                                      *)
C7_RepeatRestoresCollidesIfSet ==
    [][ (DrawStep /\ Len(drawn) > 0 /\ SameDraw(drawn[Len(drawn)], ThisDraw)) =>
        /\ io'.frame_buffer = drawn[Len(drawn)].fb
        /\ cpu'.v[15] =
              IF \E p \in Pixels : /\ drawn[Len(drawn)].fb[p + 1] = 0
                                   /\ io.frame_buffer[p + 1] # 0
              THEN 1 ELSE 0 ]_vars

(* C7 witness: the second of two equal draws has put back a framebuffer    *)
(* that the first had changed, and reported the collision.                 *)
C7_Witness ==
    /\ status = "running"
    /\ Len(drawn) = 2
    /\ SameDraw(drawn[1], drawn[2])
    /\ drawn[2].fb # drawn[1].fb
    /\ io.frame_buffer = drawn[1].fb
    /\ cpu.v[15] = 1

----------------------------------------------------------------------------
----------------------------------------------------------------------------
(* The instruction forms by their bit patterns, and the address the two    *)
(* panics of step format into their message.                               *)
IsMachineCodeCall(w) == w \div 4096 = 0 /\ w \notin {224, 238}

IsRecognized(w) ==
    \/ w \in {224, 238}
    \/ w \div 4096 \in {1, 2, 3, 4, 6, 7, 10, 11, 12, 13}
    \/ w \div 4096 \in {5, 9} /\ w % 16 = 0
    \/ w \div 4096 = 8 /\ w % 16 \in {0, 1, 2, 3, 4, 5, 6, 7, 14}
    \/ w \div 4096 = 14 /\ w % 256 \in {158, 161}
    \/ w \div 4096 = 15 /\ w % 256 \in {7, 21, 24, 30, 41, 51, 85, 101}

PanicPc(c) == c.pc - 2

(* C11: a fetched word 0nnn other than 00E0 and 00EE ends the step in the  *)
(* machine-code failure, a word of no recognized form in the unsupported-  *)
(* instruction failure, and a word of a recognized form in neither; the    *)
(* failure reports the address the word was fetched from and leaves the    *)
(* registers, the index register, the stack pointer and the IO surface as  *)
(* they were.                                                              *)
C11_DecodeOrFail ==
    [][ (StepTaken /\ cpu.pc + 1 < MemSize) =>
        /\ op' = WordAtPc
        /\ IsMachineCodeCall(WordAtPc) => status' = PanicMachineCode
        /\ (~IsMachineCodeCall(WordAtPc) /\ ~IsRecognized(WordAtPc))
              => status' = PanicUnsupported
        /\ IsRecognized(WordAtPc)
              => status' \notin {PanicMachineCode, PanicUnsupported}
        /\ status' \in {PanicMachineCode, PanicUnsupported}
              => /\ PanicPc(cpu') = cpu.pc
                 /\ cpu'.v = cpu.v /\ cpu'.idx = cpu.idx /\ cpu'.sp = cpu.sp
                 /\ io' = io ]_vars

(* C11 witness: the word FFFF at the ROM origin has ended the run in the   *)
(* unsupported-instruction failure, which reports the origin.              *)
C11_Witness ==
    /\ status = PanicUnsupported
    /\ op = 65535
    /\ PanicPc(cpu) = ROM_START_ADDR

----------------------------------------------------------------------------
(* The register selector x of the word at the program counter and the      *)
(* word's last byte.                                                       *)
SelX == (WordAtPc \div 256) % 16
LowByte == WordAtPc % 256

(* C12: with I + 2 inside memory, store-bcd Vx completes and writes        *)
(* v div 100 at I, (v div 10) mod 10 at I + 1 and v mod 10 at I + 2; no     *)
(* other memory byte, no register, not the index register, the stack       *)
(* pointer or the framebuffer changes.                                     *)
C12_StoreBcdDigits ==
    [][ (StepTaken /\ WordAtPc \div 4096 = 15 /\ LowByte = 51
            /\ cpu.idx + 2 < MemSize) =>
        /\ status' = "running"
        /\ io'.mem = [a \in 0..(MemSize - 1) |->
                        IF a = cpu.idx THEN cpu.v[SelX] \div 100
                        ELSE IF a = cpu.idx + 1 THEN (cpu.v[SelX] \div 10) % 10
                        ELSE IF a = cpu.idx + 2 THEN cpu.v[SelX] % 10
                        ELSE io.mem[a]]
        /\ io'.frame_buffer = io.frame_buffer
        /\ cpu'.v = cpu.v /\ cpu'.idx = cpu.idx /\ cpu'.sp = cpu.sp ]_vars

(* C12 witness: store-bcd of 255 has written 2, 5, 5 at the last three     *)
(* bytes of memory.                                                        *)
C12_Witness ==
    /\ status = "running"
    /\ op \div 4096 = 15 /\ op % 256 = 51
    /\ cpu.v[(op \div 256) % 16] = 255
    /\ cpu.idx = MemSize - 3
    /\ io.mem[cpu.idx] = 2 /\ io.mem[cpu.idx + 1] = 5 /\ io.mem[cpu.idx + 2] = 5

----------------------------------------------------------------------------
(* C13: with I + x inside memory, register-dump Vx completes and sets      *)
(* memory[I + j] = Vj for j = 0..x and nothing else; register-load Vx      *)
(* completes and sets Vj = memory[I + j] for j = 0..x and nothing else.    *)
(* Neither changes the index register.                                     *)
C13_DumpAndLoadInclusive ==
    [][ (StepTaken /\ WordAtPc \div 4096 = 15 /\ LowByte \in {85, 101}
            /\ cpu.idx + SelX < MemSize) =>
        /\ status' = "running"
        /\ cpu'.idx = cpu.idx /\ cpu'.sp = cpu.sp
        /\ io'.frame_buffer = io.frame_buffer
        /\ LowByte = 85 =>
              /\ cpu'.v = cpu.v
              /\ io'.mem = [a \in 0..(MemSize - 1) |->
                              IF a >= cpu.idx /\ a <= cpu.idx + SelX
                              THEN cpu.v[a - cpu.idx] ELSE io.mem[a]]
        /\ LowByte = 101 =>
              /\ io'.mem = io.mem
              /\ cpu'.v = [r \in 0..15 |->
                             IF r <= SelX THEN io.mem[cpu.idx + r] ELSE cpu.v[r]] ]_vars

(* C13 witness: a register-load VF has read back all sixteen registers,    *)
(* a non-zero V0 among them, from the last sixteen bytes of memory.        *)
C13_Witness ==
    /\ status = "running"
    /\ op = Word(15, 15, 6, 5)
    /\ cpu.idx = MemSize - 16
    /\ cpu.v[0] # 0
    /\ \A r \in 0..15 : cpu.v[r] = io.mem[cpu.idx + r]

----------------------------------------------------------------------------
(* C14: a fresh processor that has taken three steps of a program          *)
(* beginning 00E0 600A 7005 has V0 = 15, a clear framebuffer, pc = 206 and *)
(* every other register, the index register, the stack pointer and the    *)
(* timers at their initial values.                                         *)
C14_ScenarioAfterThreeSteps ==
    (/\ i = 3
     /\ << io.mem[512], io.mem[513], io.mem[514], io.mem[515], io.mem[516],
           io.mem[517] >> = << 0, 224, 96, 10, 112, 5 >>)
    => /\ status = "running"
       /\ cpu.v = [r \in 0..15 |-> IF r = 0 THEN 15 ELSE 0]
       /\ \A p \in Pixels : io.frame_buffer[p + 1] = 0
       /\ cpu.pc = 518
       /\ cpu.idx = 0 /\ cpu.sp = 3839 /\ cpu.delay = 0 /\ cpu.sound = 0

(* C14 witness: the third step of the scenario, the add-immediate, has     *)
(* run and left V0 = 15.                                                   *)
C14_Witness ==
    /\ i = 3
    /\ op = WordXNN(7, 0, 5)
    /\ cpu.v[0] = 15
    /\ cpu.pc = ROM_START_ADDR + 6

----------------------------------------------------------------------------
(* What a step that does not expire the sub-tick counter may change        *)
(* besides the one register Vx: the program counter and the counter.       *)
OnlyVxBecomes(val) ==
    /\ cpu'.v = [cpu.v EXCEPT ![SelX] = val]
    /\ cpu'.idx = cpu.idx /\ cpu'.sp = cpu.sp
    /\ cpu'.delay = cpu.delay /\ cpu'.sound = cpu.sound
    /\ io' = io

(* C15: load-immediate leaves Vx = n, add-immediate (Vx + n) mod 256,      *)
(* move, or, and, xor leave Vy, Vx | Vy, Vx & Vy, Vx ^ Vy in Vx; register  *)
(* 15 (unless it is Vx), every other register, the index register, stack   *)
(* pointer, timers, memory and framebuffer keep their values.              *)
C15_LoadAddLogicFrame ==
    [][ (StepTaken /\ cpu.cycle > 1) =>
        LET w == WordAtPc
            vx == cpu.v[(w \div 256) % 16]
            vy == cpu.v[(w \div 16) % 16]
        IN  /\ w \div 4096 = 6 => status' = "running" /\ OnlyVxBecomes(w % 256)
            /\ w \div 4096 = 7 =>
                  status' = "running" /\ OnlyVxBecomes((vx + (w % 256)) % 256)
            /\ (w \div 4096 = 8 /\ w % 16 = 0) =>
                  status' = "running" /\ OnlyVxBecomes(vy)
            /\ (w \div 4096 = 8 /\ w % 16 = 1) =>
                  status' = "running" /\ OnlyVxBecomes(BitOr(vx, vy))
            /\ (w \div 4096 = 8 /\ w % 16 = 2) =>
                  status' = "running" /\ OnlyVxBecomes(BitAnd(vx, vy))
            /\ (w \div 4096 = 8 /\ w % 16 = 3) =>
                  status' = "running" /\ OnlyVxBecomes(BitXor(vx, vy)) ]_vars

(* C15 witness: or V0, V7 has run with VF = 1 and left VF = 1.             *)
C15_Witness ==
    /\ status = "running"
    /\ op = Word(8, 0, 7, 1)
    /\ cpu.v[0] = 241 /\ cpu.v[7] = 240
    /\ cpu.v[15] = 1

----------------------------------------------------------------------------
(* C16: both timers stay in 0..255; on a step that expires the sub-tick    *)
(* counter a timer that is 0 stays 0 and any other decreases by 1; apart   *)
(* from that the delay timer changes only by set-delay, to Vx, and the     *)
(* sound timer only by set-sound, to Vx.                                   *)
C16_TimersSaturate ==
    [][ /\ {cpu.delay, cpu.sound, cpu'.delay, cpu'.sound} \subseteq 0..255
        /\ ~StepTaken => cpu'.delay = cpu.delay /\ cpu'.sound = cpu.sound
        /\ StepCompleted =>
              LET hasForm == WordAtPc \div 4096 = 15
                  afterDecay == [t \in 0..255 |->
                                   IF cpu.cycle # 1 THEN t
                                   ELSE IF t = 0 THEN 0 ELSE t - 1]
              IN  /\ cpu'.delay = IF hasForm /\ LowByte = 21 THEN cpu.v[SelX]
                                  ELSE afterDecay[cpu.delay]
                  /\ cpu'.sound = IF hasForm /\ LowByte = 24 THEN cpu.v[SelX]
                                  ELSE afterDecay[cpu.sound] ]_vars

(* C16 witness: the second decay, on step 118, found the delay timer at 0, *)
(* where the first had left it, and it is still 0.                         *)
C16_Witness ==
    /\ status = "running"
    /\ i = 2 * CycleLength
    /\ cpu.cycle = CycleLength
    /\ cpu.v[3] = 1
    /\ cpu.delay = 0 /\ cpu.sound = 0

----------------------------------------------------------------------------
(* C19: the framebuffer always has 64 * 32 = 2048 entries and each is 0    *)
(* or 00FFFFFF, whatever has been drawn and cleared.                       *)
C19_PixelsAreClearOrSet ==
    /\ Len(io.frame_buffer) = 2048
    /\ \A p \in 1..2048 : io.frame_buffer[p] \in {0, 16777215}

(* C19 witness: after a draw, a clear and another draw some pixels are set *)
(* and the pixel at the origin, set by the first draw, is clear.           *)
C19_Witness ==
    /\ status = "running"
    /\ i = 7
    /\ op \div 4096 = 13
    /\ cpu.v[0] = 62
    /\ io.frame_buffer[1] = 0
    /\ \E p \in 1..2048 : io.frame_buffer[p] = 16777215

----------------------------------------------------------------------------
(* C20: on a step that expires the sub-tick counter the decay comes first: *)
(* read-delay Vx stores the decremented delay value, and set-delay Vx and  *)
(* set-sound Vx leave the timer equal to Vx.                               *)
C20_DecayBeforeInstruction ==
    [][ (StepCompleted /\ cpu.cycle = 1 /\ WordAtPc \div 4096 = 15) =>
        /\ LowByte = 7 =>
              cpu'.v[SelX] = IF cpu.delay = 0 THEN 0 ELSE cpu.delay - 1
        /\ LowByte = 21 => cpu'.delay = cpu.v[SelX]
        /\ LowByte = 24 => cpu'.sound = cpu.v[SelX] ]_vars

(* C20 witness: read-delay V2 ran on step 59 with the delay timer at 5 and *)
(* stored 4.                                                               *)
C20_Witness ==
    /\ status = "running"
    /\ i = CycleLength
    /\ op = Word(15, 2, 0, 7)
    /\ cpu.v[0] = 5
    /\ cpu.v[2] = 4 /\ cpu.delay = 4

----------------------------------------------------------------------------
(* C17: skip-if-key-pressed Vx skips exactly when a key is reported and    *)
(* equals the whole of Vx; skip-if-key-not-pressed Vx skips exactly when   *)
(* no key is reported or the reported key differs from Vx. Neither changes *)
(* a register, a timer or the IO surface.                                  *)
C17_KeySkips ==
    [][ (StepTaken /\ cpu.cycle > 1 /\ WordAtPc \div 4096 = 14
            /\ LowByte \in {158, 161}) =>
        LET pressed == \E k \in 0..15 : io.key = {k} /\ k = cpu.v[SelX]
            skips == IF LowByte = 158 THEN pressed ELSE ~pressed
        IN  /\ status' = "running"
            /\ cpu'.pc = IF skips THEN cpu.pc + 4 ELSE cpu.pc + 2
            /\ OnlyVxBecomes(cpu.v[SelX]) ]_vars

(* C17 witness: with key 5 reported and Vx = 21, whose low nibble is 5,    *)
(* skip-if-key-pressed has not skipped.                                    *)
C17_Witness ==
    /\ status = "running"
    /\ op \div 4096 = 14 /\ op % 256 = 158
    /\ io.key = {5}
    /\ cpu.v[(op \div 256) % 16] = 21
    /\ cpu.pc = ROM_START_ADDR + 4

----------------------------------------------------------------------------
(* C18: the stack is part of the one 4096-byte memory and starts at EFF.   *)
(* A call writes the low byte of the return address at sp and the high     *)
(* byte at sp - 1, whatever those bytes held, and lowers sp by 2; a return *)
(* raises sp by 2 and jumps to the bytes then at sp - 1 and sp, whoever    *)
(* wrote them.                                                             *)
C18_StackInMemory ==
    [][ StepCompleted =>
        /\ DOMAIN io.mem = 0..(MemSize - 1)
        /\ i = 0 => cpu.sp = 3839
        /\ WordAtPc \div 4096 = 2 =>
              /\ io'.mem = [io.mem EXCEPT ![cpu.sp] = (cpu.pc + 2) % 256,
                                          ![cpu.sp - 1] = (cpu.pc + 2) \div 256]
              /\ cpu'.sp = cpu.sp - 2
        /\ WordAtPc = 238 =>
              /\ cpu'.sp = cpu.sp + 2
              /\ cpu'.pc = io.mem[cpu'.sp - 1] * 256 + io.mem[cpu'.sp]
              /\ io'.mem = io.mem ]_vars

(* C18 witness: a return has jumped to 210, the address a register-dump    *)
(* wrote over the return address 202 of the call.                          *)
C18_Witness ==
    /\ status = "running"
    /\ op = 238
    /\ cpu.sp = InitialSp
    /\ cpu.pc = 528
    /\ io.mem[InitialSp - 1] = 2 /\ io.mem[InitialSp] = 16
    /\ io.mem[ROM_START_ADDR] * 256 + io.mem[ROM_START_ADDR + 1] = WordNNN(2, 518)

----------------------------------------------------------------------------
(* C8: in properly nested calls and returns, with the stack bytes written  *)
(* by calls alone, a return sets the program counter to the address after  *)
(* its matching call (the last call not yet returned from) and the stack   *)
(* pointer to its value before that call.                                  *)
C8_ReturnMatchesCall ==
    [][ (StepCompleted /\ op' = 238 /\ Len(calls) > 0)
        => /\ cpu'.pc = calls[Len(calls)].ret
           /\ cpu'.sp = calls[Len(calls)].sp
           /\ calls' = SubSeq(calls, 1, Len(calls) - 1) ]_vars

(* C8 witness: an inner return has been matched at nesting depth three.    *)
C8_Witness ==
    /\ status = "running"
    /\ op = 238
    /\ Len(calls) = 2
    /\ cpu.sp = InitialSp - 4
    /\ cpu.pc = calls[2].ret + 4

----------------------------------------------------------------------------
(* C10: a step that completes fetched the two bytes at p and p + 1, high   *)
(* byte first, and leaves pc = nnn after jump and call, V0 + nnn after     *)
(* jump-offset, the popped address after return, p + 4 after a skip whose  *)
(* condition is true and p + 2 after every other instruction.              *)
C10_PcAfterStep ==
    [][ StepCompleted =>
        LET p == cpu.pc
            w == WordAtPc
            vx == cpu.v[(w \div 256) % 16]
            vy == cpu.v[(w \div 16) % 16]
            form == w \div 4096
            skips ==
                \/ form = 3 /\ vx = w % 256
                \/ form = 4 /\ vx # w % 256
                \/ form = 5 /\ w % 16 = 0 /\ vx = vy
                \/ form = 9 /\ w % 16 = 0 /\ vx # vy
                \/ form = 14 /\ w % 256 = 158 /\ io.key = {vx}
                \/ form = 14 /\ w % 256 = 161 /\ io.key # {vx}
        IN  /\ op' = w
            /\ cpu'.pc =
                  IF form \in {1, 2} THEN w % 4096
                  ELSE IF form = 11 THEN cpu.v[0] + (w % 4096)
                  ELSE IF w = 238
                  THEN io.mem[cpu.sp + 1] * 256 + io.mem[cpu.sp + 2]
                  ELSE IF skips THEN p + 4
                  ELSE p + 2 ]_vars

(* C10 witness: a jump-offset with V0 # 0 has completed. *)
C10_Witness ==
    /\ status = "running"
    /\ op \div 4096 = 11
    /\ cpu.v[0] # 0
    /\ cpu.pc = cpu.v[0] + (op % 4096)

====
